---- MODULE Spec2Model ----
(***************************************************************************)
(* A model of sendto.c (SendTo+): the Entry Store (MenuVector), the        *)
(* recursive menu builder (EnumerateFolder), the shell capability binding  *)
(* (GetShellInterfaceForPaths / GetShellInterfaceForPIDLs) and the         *)
(* drag-drop orchestrator (ExecuteDragDrop / ExecuteDropOperation).        *)
(*                                                                         *)
(* Heap buffers, bitmaps, menus, PIDLs and COM interface pointers are      *)
(* numbered handles; NULL is 0.  Every allocation that can fail in the    *)
(* program (malloc, realloc, CreatePopupMenu) fails nondeterministically,  *)
(* at most MaxFaults times per run.                                        *)
(***************************************************************************)
EXTENDS Integers, Sequences, FiniteSets, TLC

VARIABLES
    \* ---- Entry Store (MenuVector) ----
    vec,        \* [items, count, capacity]: items has `capacity` slots
    vecBefore,  \* the store as it was when the latest VectorPush was called
    pushLog,    \* history: one record per VectorPush call, in call order
    faults,     \* number of allocation failures injected so far
    nullIconAt, \* SpecVec input: the push whose icon is NULL (0: none)
    \* ---- menu builder (BuildSendToMenu / EnumerateFolder) ----
    pc,         \* position of the run
    tree,       \* the directory tree under the destination root (input)
    maxDepth,   \* the value MAX_DEPTH was compiled with
    stack,      \* active EnumerateFolder calls, innermost last
    nextCmdId,  \* BuildSendToMenu's initialCmdId, passed by address
    menu,       \* the menu items inserted so far, in insertion order
    nextMenu,   \* number of menus created by CreatePopupMenu
    popup,      \* BuildSendToMenu's *outPopup (NULL: CreatePopupMenu failed)
    bufs,       \* heap buffers handed out by CombinePath
    bmps,       \* bitmaps handed out by IconForPath: number of DeleteObject
    walkLog,    \* history: the entries the enumeration returned and their fate
    buildHr,    \* HRESULT of the outermost EnumerateFolder ("none" before)
    lastHr,     \* HRESULT of the EnumerateFolder call that returned last
    choice,     \* the command id returned by DisplaySendToMenu
    \* ---- drag and drop (ExecuteDragDrop) ----
    dd,         \* ExecuteDragDrop's locals and position
    gs,         \* the active GetShellInterfaceForPaths/PIDLs call
    refs,       \* releases per acquired PIDL / COM reference
    calls,      \* history: the protocol calls made on the drop target
    \* ---- icon lookup (IconForPath) and directory listing ----
    icons,      \* icon handles SHGetFileInfoW handed out: number of DestroyIcon
    finds,      \* find handles FindFirstFileExW handed out: number of FindClose
    \* ---- the process (wWinMain / RunSendTo) ----
    proc        \* command line, process-global handles, message boxes, exit code

vecVars  == <<vec, vecBefore, pushLog, faults, nullIconAt>>
walkVars == <<pc, tree, maxDepth, stack, nextCmdId, menu, nextMenu, popup, bufs, bmps,
              walkLog, buildHr, lastHr, choice, icons, finds>>
dropVars == <<dd, gs, refs, calls>>
vars     == <<vec, vecBefore, pushLog, faults, nullIconAt,
              pc, tree, maxDepth, stack, nextCmdId, menu, nextMenu, popup, bufs,
              bmps, walkLog, buildHr, lastHr, choice, dd, gs, refs, calls,
              icons, finds, proc>>

(***************************************************************************)
(* Bounds of the model and constants of the program                        *)
(***************************************************************************)
MaxFaults == 3      \* allocation failures injected per run
MaxPushes == 66     \* VectorPush calls in SpecVec (crosses the growth at 64)
MaxPaths  == 3      \* source paths handed to ExecuteDragDrop
MaxReserves == 2    \* direct VectorEnsureCapacity calls in SpecReserve

NULL      == 0
MAX_DEPTH == 5
BaseCapacity == 64

(***************************************************************************)
(* Entry Store: MenuEntry, MenuVector, VectorEnsureCapacity, VectorPush    *)
(***************************************************************************)
MenuEntry(path, icon) == [path |-> path, icon |-> icon]

\* A slot as ZeroMemory leaves it.
ZeroEntry == MenuEntry(NULL, NULL)

\* MenuVector after `= (MenuVector){ 0 }`.
EmptyVector == [items |-> <<>>, count |-> 0, capacity |-> 0]

\* Mutant of GrowCapacity: the test `newCap < need` is missing.
GrowCapacityDoubling(capacity, need) ==
    IF capacity # 0 THEN capacity * 2 ELSE BaseCapacity

\* The new capacity VectorEnsureCapacity asks realloc for.  (UINT wraps at
\* 2^32; every capacity of the model is far below it.)
GrowCapacity(capacity, need) ==
    LET newCap == IF capacity # 0 THEN capacity * 2 ELSE BaseCapacity
    IN  IF newCap < need THEN need ELSE newCap

\* Mutant of ReallocItems: the buffer is replaced by a fresh zeroed one
\* (calloc instead of realloc), so the old entries are lost.
ReallocItemsFresh(items, capacity, newCap) ==
    [i \in 1..newCap |-> ZeroEntry]

\* realloc to newCap slots followed by ZeroMemory of the new tail.
ReallocItems(items, capacity, newCap) ==
    [i \in 1..newCap |-> IF i <= capacity THEN items[i] ELSE ZeroEntry]

\* reallocOk: whether realloc returns a buffer.  Result: [ok, vec].
VectorEnsureCapacity(v, need, reallocOk) ==
    IF need <= v.capacity
    THEN [ok |-> TRUE, vec |-> v]
    ELSE LET newCap == GrowCapacity(v.capacity, need)
         IN  IF ~reallocOk
             THEN [ok |-> FALSE, vec |-> v]
             ELSE [ok  |-> TRUE,
                   vec |-> [items    |-> ReallocItems(v.items, v.capacity, newCap),
                            count    |-> v.count,
                            capacity |-> newCap]]

\* Mutant of VectorPush: count++ runs before the capacity check, so a failed
\* push still counts an entry.
VectorPushEager(v, path, icon, reallocOk) ==
    LET r == VectorEnsureCapacity(v, v.count + 1, reallocOk)
        w == r.vec
    IN  IF ~r.ok
        THEN [ok |-> FALSE, vec |-> [v EXCEPT !.count = v.count + 1]]
        ELSE [ok  |-> TRUE,
              vec |-> [w EXCEPT !.items[w.count + 1] = MenuEntry(path, icon),
                                !.count = w.count + 1]]

\* Result: [ok, vec].  The slot index count is 0-based in C, count + 1 here.
VectorPush(v, path, icon, reallocOk) ==
    LET r == VectorEnsureCapacity(v, v.count + 1, reallocOk)
        w == r.vec
    IN  IF ~r.ok
        THEN [ok |-> FALSE, vec |-> v]
        ELSE [ok  |-> TRUE,
              vec |-> [w EXCEPT !.items[w.count + 1] = MenuEntry(path, icon),
                                !.count = w.count + 1]]

\* Whether a VectorPush on v has to call realloc at all.
NeedsGrowth(v) == v.count + 1 > v.capacity

PushRecord(site, ok, path, icon) ==
    [site |-> site, ok |-> ok, path |-> path, icon |-> icon]

(***************************************************************************)
(* The directory tree: what FindFirstFileExW / FindNextFileW, PathCombineW,*)
(* PathIsDirectoryW and SHGetFileInfoW answer for each path                *)
(***************************************************************************)
\* A node of the tree.  icon: SHGetFileInfoW yields an icon that converts;
\* long: PathCombineW fails on the name; gone: PathIsDirectoryW is false
\* when the directory is entered; denied: FindFirstFileExW fails on it.
\* lookup: which SHGetFileInfoW call of IconForPath succeeds: "icon" (the
\* SHGFI_ICON one), "fallback" (only the SHGFI_SYSICONINDEX one, which
\* leaves info.hIcon unwritten) or "none".
FileNode ==
    [isDir |-> FALSE, hidden |-> FALSE, system |-> FALSE, kids |-> <<>>,
     icon |-> TRUE, long |-> FALSE, gone |-> FALSE, denied |-> FALSE,
     lookup |-> "icon"]

DirNode(kids) == [FileNode EXCEPT !.isDir = TRUE, !.kids = kids]

Root == 1

\* A chain of directories below the depth bound, with files on the way.
TreeDeep ==
    [driveRoot |-> FALSE,
     nodes |-> << DirNode(<<2>>), DirNode(<<3>>), DirNode(<<4>>),
                  DirNode(<<5>>), DirNode(<<6, 9>>), DirNode(<<7, 8>>),
                  DirNode(<<10>>), FileNode, FileNode, FileNode >>]

\* A chain that ends exactly at the depth bound.
TreeBound ==
    [driveRoot |-> FALSE,
     nodes |-> << DirNode(<<2, 7>>), DirNode(<<3>>), DirNode(<<4>>),
                  DirNode(<<5>>), DirNode(<<6>>), FileNode, FileNode >>]

\* Notes/ (empty), Archive.zip, Backups/Daily/ with one file in Daily.
TreeScenario ==
    [driveRoot |-> FALSE,
     nodes |-> << DirNode(<<2, 3, 4>>), DirNode(<<>>), FileNode,
                  DirNode(<<5>>), DirNode(<<6>>), FileNode >>]

\* Hidden and system children, one of them a directory with content.
TreeFiltered ==
    [driveRoot |-> FALSE,
     nodes |-> << DirNode(<<2, 3, 4, 6>>),
                  [FileNode EXCEPT !.hidden = TRUE],
                  FileNode,
                  [DirNode(<<5>>) EXCEPT !.system = TRUE],
                  FileNode,
                  [DirNode(<<7>>) EXCEPT !.hidden = TRUE, !.system = TRUE],
                  FileNode >>]

\* Children whose icon, path or listing cannot be obtained.
TreeBroken ==
    [driveRoot |-> FALSE,
     nodes |-> << DirNode(<<2, 3, 4, 5, 7>>),
                  [FileNode EXCEPT !.icon = FALSE],
                  [FileNode EXCEPT !.long = TRUE],
                  [DirNode(<<>>) EXCEPT !.gone = TRUE],
                  [DirNode(<<6>>) EXCEPT !.denied = TRUE, !.icon = FALSE,
                                         !.lookup = "none"],
                  FileNode,
                  [FileNode EXCEPT !.icon = FALSE, !.lookup = "fallback"] >>]

\* A drive root: no "." and "..", here with nothing in it and with one file.
TreeEmptyDrive == [driveRoot |-> TRUE, nodes |-> << DirNode(<<>>) >>]

TreeDrive == [driveRoot |-> TRUE, nodes |-> << DirNode(<<2, 3>>), FileNode, DirNode(<<>>) >>]

Trees == {TreeDeep, TreeBound, TreeScenario, TreeFiltered, TreeBroken, TreeEmptyDrive, TreeDrive}

\* One WIN32_FIND_DATAW: cFileName and the attribute bits the walk reads.
FindData(name, node, isDir, hidden, system) ==
    [name |-> name, node |-> node, isDir |-> isDir,
     hidden |-> hidden, system |-> system]

NodeFindData(t, n) ==
    FindData("name", n, t.nodes[n].isDir, t.nodes[n].hidden, t.nodes[n].system)

\* The entries FindFirstFileExW / FindNextFileW return for "dir\\*".
Listing(t, dir) ==
    LET kids == t.nodes[dir].kids
        real == [i \in 1..Len(kids) |-> NodeFindData(t, kids[i])]
        dots == << FindData(".", NULL, TRUE, FALSE, FALSE),
                   FindData("..", NULL, TRUE, FALSE, FALSE) >>
    IN  IF dir = Root /\ t.driveRoot THEN real ELSE dots \o real

(***************************************************************************)
(* Menu population: SkipEntry, CombinePath, IconForPath, AddFileItem,      *)
(* AddDirectoryItem, EnumerateFolder                                       *)
(***************************************************************************)
\* Mutant of SkipEntry: the attribute mask lacks FILE_ATTRIBUTE_HIDDEN.
SkipEntrySystemOnly(findData) ==
    findData.system \/ findData.name = "." \/ findData.name = ".."

\* Mutant of SkipEntry: the attribute mask lacks FILE_ATTRIBUTE_SYSTEM.
SkipEntryHiddenOnly(findData) ==
    findData.hidden \/ findData.name = "." \/ findData.name = ".."

SkipEntry(findData) ==
    (findData.hidden \/ findData.system)
        \/ findData.name = "." \/ findData.name = ".."

\* Mutant of DepthReached: the bound is tested with > instead of >=.
DepthReachedLate(depth, bound) == depth > bound

\* The test `depth >= MAX_DEPTH` that opens EnumerateFolder.
DepthReached(depth, bound) == depth >= bound

\* Mutant of ChildDepth: the recursive call is passed depth unchanged.
ChildDepthSame(depth) == depth

\* The depth argument `depth + 1` of the recursive call.
ChildDepth(depth) == depth + 1

\* A heap buffer of CombinePath: what it names and how often it was freed.
\* kind "pattern" is "dir\*", kind "child" is the path of node.
Buffer(kind, node, frees) == [kind |-> kind, node |-> node, frees |-> frees]

Free(bs, b) == [bs EXCEPT ![b].frees = @ + 1]

\* DeleteObject guarded by `if (bitmap)`.
DeleteBitmap(bm, b) == IF b # NULL THEN [bm EXCEPT ![b] = @ + 1] ELSE bm

\* DestroyIcon: it fails on NULL and destroys nothing.
DestroyIcon(ic, h) == IF h # NULL THEN [ic EXCEPT ![h] = @ + 1] ELSE ic

\* DibFromIcon(iconHandle) as far as the icon handle goes: NULL is returned
\* at once, on every other path the handle is destroyed before the return.
DibFromIcon(ic, h) == IF h = NULL THEN ic ELSE DestroyIcon(ic, h)

\* The values an SHFILEINFOW.hIcon that no call has written can hold: NULL
\* or what the previous IconForPath call left in the same stack slot.
Uninitialized(ic) == {NULL} \cup {h \in {Len(ic)} : h > 0}

\* IconForPath as far as icon handles go: the handle SHGetFileInfoW returns
\* goes to DibFromIcon and then to DestroyIcon.  garbage: the value of
\* info.hIcon when only the fallback lookup succeeded.
IconForPath(ic, node, garbage) ==
    LET isDirectory == node.isDir /\ ~node.gone
        obtained    == Len(ic) + 1
    IN  IF node.lookup = "icon"
        THEN DestroyIcon(DibFromIcon(Append(ic, 0), obtained), obtained)
        ELSE IF node.lookup = "fallback" /\ ~isDirectory
             THEN DestroyIcon(DibFromIcon(ic, garbage), garbage)
             ELSE ic

\* One EnumerateFolder call.  phase "call": at its first line; phase "loop":
\* inside the do-while, idx being the entry findData holds.
Frame(dir, menuHandle, depth) ==
    [dir |-> dir, menu |-> menuHandle, depth |-> depth,
     phase |-> "call", idx |-> 0, pattern |-> NULL, hFind |-> NULL]

Top == stack[Len(stack)]

Pop(s) == SubSeq(s, 1, Len(s) - 1)

\* A leaf item (wID = id) of the menu parent, and a submenu sub
\* (dwContextHelpID = helpId) with its item in parent, created for node.
\* A submenu whose parent is NULL exists but hangs in no menu.
LeafItem(parent, id, node, bmp) ==
    [kind |-> "leaf", menu |-> parent, id |-> id, sub |-> NULL,
     node |-> node, bmp |-> bmp]

SubMenuItem(parent, sub, helpId, node, bmp) ==
    [kind |-> "sub", menu |-> parent, id |-> helpId, sub |-> sub,
     node |-> node, bmp |-> bmp]

\* InsertMenuItemW of a leaf item: it fails on a NULL parent menu.
InsertMenuItem(items, item) ==
    IF item.menu # NULL THEN Append(items, item) ELSE items

\* An entry the enumeration returned and what the loop body did with it.
Visit(findData, depth, fate) ==
    [node |-> findData.node, name |-> findData.name, isDir |-> findData.isDir,
     hidden |-> findData.hidden, system |-> findData.system,
     depth |-> depth, fate |-> fate, dir |-> stack[Len(stack)].dir]

InWalk == pc = "walk" /\ stack # <<>>

InCall == InWalk /\ Top.phase = "call"

InLoop == InWalk /\ Top.phase = "loop" /\ Top.idx <= Len(Listing(tree, Top.dir))

Current == Listing(tree, Top.dir)[Top.idx]

\* Mutant of Return: the caller passes a nested failure on
\* (RETURN_IF_FAILED around the recursive call), which ends the whole walk.
ReturnIfFailed(hr) ==
    /\ lastHr' = hr
    /\ IF Len(stack) = 1 \/ hr # "S_OK"
       THEN stack' = <<>> /\ pc' = "built" /\ buildHr' = hr
       ELSE stack' = Pop(stack) /\ UNCHANGED <<pc, buildHr>>

\* `return hr;` of the innermost call: nested results are dropped by the
\* caller, the outermost one goes to BuildSendToMenu.
Return(hr) ==
    /\ stack' = Pop(stack)
    /\ lastHr' = hr
    /\ IF Len(stack) = 1
       THEN pc' = "built" /\ buildHr' = hr
       ELSE UNCHANGED <<pc, buildHr>>

\* `continue` and the loop condition FindNextFileW.
NextEntry == stack' = [stack EXCEPT ![Len(stack)].idx = @ + 1]

\* BuildSendToMenu up to the call of EnumerateFolder.  CreatePopupMenu may
\* return NULL, which is passed on unchecked.
BuildSendToMenuBegin ==
    /\ pc = "build"
    /\ pc' = "walk"
    /\ \E created \in BOOLEAN :
         /\ created \/ faults < MaxFaults
         /\ faults' = IF created THEN faults ELSE faults + 1
         /\ nextMenu' = IF created THEN 1 ELSE 0
         /\ popup' = IF created THEN 1 ELSE NULL
         /\ stack' = << Frame(Root, IF created THEN 1 ELSE NULL, 0) >>
    /\ vec' = EmptyVector
    /\ nextCmdId' = 1
    /\ UNCHANGED <<vecBefore, pushLog, nullIconAt, tree, maxDepth, menu,
                   bufs, bmps, walkLog, buildHr, lastHr, choice, dropVars, icons, finds, proc>>

EnumerateFolderDepthStop ==
    /\ InCall
    /\ DepthReached(Top.depth, maxDepth)
    /\ Return("S_OK")
    /\ UNCHANGED <<vecVars, tree, maxDepth, nextCmdId, menu, nextMenu, popup, bufs, bmps,
                   walkLog, choice, dropVars, icons, finds, proc>>

EnumerateFolderNotDirectory ==
    /\ InCall
    /\ ~DepthReached(Top.depth, maxDepth)
    /\ tree.nodes[Top.dir].gone
    /\ Return("S_OK")
    /\ UNCHANGED <<vecVars, tree, maxDepth, nextCmdId, menu, nextMenu, popup, bufs, bmps,
                   walkLog, choice, dropVars, icons, finds, proc>>

\* CombinePath(&pattern, directory, L"*") fails in malloc.
EnumerateFolderPatternFails ==
    /\ InCall
    /\ ~DepthReached(Top.depth, maxDepth)
    /\ ~tree.nodes[Top.dir].gone
    /\ faults < MaxFaults
    /\ faults' = faults + 1
    /\ Return("E_OUTOFMEMORY")
    /\ UNCHANGED <<vec, vecBefore, pushLog, nullIconAt, tree, maxDepth, nextCmdId,
                   menu, nextMenu, popup, bufs, bmps, walkLog, choice, dropVars, icons, finds, proc>>

\* FindFirstFileExW returns INVALID_HANDLE_VALUE: the listing is refused or
\* nothing matches.  The pattern buffer stays allocated.
EnumerateFolderFindFails ==
    /\ InCall
    /\ ~DepthReached(Top.depth, maxDepth)
    /\ ~tree.nodes[Top.dir].gone
    /\ tree.nodes[Top.dir].denied \/ Listing(tree, Top.dir) = <<>>
    /\ bufs' = Append(bufs, Buffer("pattern", Top.dir, 0))
    /\ Return("E_WIN32")
    /\ UNCHANGED <<vecVars, tree, maxDepth, nextCmdId, menu, nextMenu, popup, bmps,
                   walkLog, choice, dropVars, icons, finds, proc>>

\* The listing starts: findData holds the first entry.
EnumerateFolderOpen ==
    /\ InCall
    /\ ~DepthReached(Top.depth, maxDepth)
    /\ ~tree.nodes[Top.dir].gone
    /\ ~tree.nodes[Top.dir].denied /\ Listing(tree, Top.dir) # <<>>
    /\ bufs' = Append(bufs, Buffer("pattern", Top.dir, 0))
    /\ finds' = Append(finds, 0)
    /\ stack' = [stack EXCEPT ![Len(stack)].phase = "loop",
                              ![Len(stack)].idx = 1,
                              ![Len(stack)].pattern = Len(bufs) + 1,
                              ![Len(stack)].hFind = Len(finds) + 1]
    /\ UNCHANGED <<vecVars, pc, tree, maxDepth, nextCmdId, menu, nextMenu, popup, bmps,
                   walkLog, buildHr, lastHr, choice, dropVars, icons, proc>>

VisitSkipped ==
    /\ InLoop
    /\ SkipEntry(Current)
    /\ walkLog' = Append(walkLog, Visit(Current, Top.depth, "skipped"))
    /\ NextEntry
    /\ UNCHANGED <<vecVars, pc, tree, maxDepth, nextCmdId, menu, nextMenu, popup, bufs,
                   bmps, buildHr, lastHr, choice, dropVars, icons, finds, proc>>

\* CombinePath(&childPath, ...) fails in malloc.
VisitMallocFails ==
    /\ InLoop
    /\ ~SkipEntry(Current)
    /\ faults < MaxFaults
    /\ faults' = faults + 1
    /\ walkLog' = Append(walkLog, Visit(Current, Top.depth, "noPath"))
    /\ NextEntry
    /\ UNCHANGED <<vec, vecBefore, pushLog, nullIconAt, pc, tree, maxDepth,
                   nextCmdId, menu, nextMenu, popup, bufs, bmps, buildHr, lastHr, choice, dropVars, icons, finds, proc>>

\* CombinePath fails in PathCombineW and frees the buffer it allocated.
VisitCombineFails ==
    /\ InLoop
    /\ ~SkipEntry(Current)
    /\ tree.nodes[Current.node].long
    /\ bufs' = Append(bufs, Buffer("child", Current.node, 1))
    /\ walkLog' = Append(walkLog, Visit(Current, Top.depth, "noPath"))
    /\ NextEntry
    /\ UNCHANGED <<vecVars, pc, tree, maxDepth, nextCmdId, menu, nextMenu, popup, bmps,
                   buildHr, lastHr, choice, dropVars, icons, finds, proc>>

\* The loop body reaches IconForPath: childPath was combined.
Combined == InLoop /\ ~SkipEntry(Current) /\ ~tree.nodes[Current.node].long

\* The handles the body obtains: childPath, and bmp (NULL without an icon).
ChildPath == Len(bufs) + 1

ChildBmp == IF tree.nodes[Current.node].icon THEN Len(bmps) + 1 ELSE NULL

WithChild(bs) == Append(bs, Buffer("child", Current.node, 0))

WithBmp(bm) == IF ChildBmp # NULL THEN Append(bm, 0) ELSE bm

\* The file branch: AddFileItem with commandId (*nextCmdId)++.
VisitFile ==
    /\ Combined
    /\ ~Current.isDir
    /\ \E reallocOk \in BOOLEAN :
         LET r == VectorPush(vec, ChildPath, ChildBmp, reallocOk) IN
           /\ reallocOk \/ (NeedsGrowth(vec) /\ faults < MaxFaults)
           /\ faults' = IF reallocOk THEN faults ELSE faults + 1
           /\ vecBefore' = vec
           /\ vec' = r.vec
           /\ pushLog' = Append(pushLog, PushRecord("file", r.ok, ChildPath, ChildBmp))
           /\ IF r.ok
              THEN /\ menu' = InsertMenuItem(menu, LeafItem(Top.menu, nextCmdId,
                                                            Current.node, ChildBmp))
                   /\ bufs' = WithChild(bufs)
                   /\ bmps' = WithBmp(bmps)
              ELSE /\ menu' = menu
                   /\ bufs' = Free(WithChild(bufs), ChildPath)
                   /\ bmps' = DeleteBitmap(WithBmp(bmps), ChildBmp)
           /\ walkLog' = Append(walkLog, Visit(Current, Top.depth,
                                               IF r.ok THEN "pushed" ELSE "pushFailed"))
    /\ \E garbage \in Uninitialized(icons) :
         icons' = IconForPath(icons, tree.nodes[Current.node], garbage)
    /\ nextCmdId' = nextCmdId + 1
    /\ NextEntry
    /\ UNCHANGED <<nullIconAt, pc, tree, maxDepth, nextMenu, popup, buildHr, lastHr, choice,
                   dropVars, finds, proc>>

\* The directory branch when CreatePopupMenu returns NULL.
VisitDirectoryNoSubMenu ==
    /\ Combined
    /\ Current.isDir
    /\ faults < MaxFaults
    /\ faults' = faults + 1
    /\ bufs' = Free(WithChild(bufs), ChildPath)
    /\ bmps' = DeleteBitmap(WithBmp(bmps), ChildBmp)
    /\ \E garbage \in Uninitialized(icons) :
         icons' = IconForPath(icons, tree.nodes[Current.node], garbage)
    /\ walkLog' = Append(walkLog, Visit(Current, Top.depth, "noSubMenu"))
    /\ NextEntry
    /\ UNCHANGED <<vec, vecBefore, pushLog, nullIconAt, pc, tree, maxDepth,
                   nextCmdId, menu, nextMenu, popup, buildHr, lastHr, choice,
                   dropVars, finds, proc>>

\* The directory branch: AddDirectoryItem, VectorPush (result unused),
\* (*nextCmdId)++ and the recursive call.
VisitDirectory ==
    /\ Combined
    /\ Current.isDir
    /\ \E reallocOk \in BOOLEAN :
         LET r == VectorPush(vec, ChildPath, ChildBmp, reallocOk) IN
           /\ reallocOk \/ (NeedsGrowth(vec) /\ faults < MaxFaults)
           /\ faults' = IF reallocOk THEN faults ELSE faults + 1
           /\ vecBefore' = vec
           /\ vec' = r.vec
           /\ pushLog' = Append(pushLog, PushRecord("dir", r.ok, ChildPath, ChildBmp))
           /\ walkLog' = Append(walkLog, Visit(Current, Top.depth,
                                               IF r.ok THEN "pushed" ELSE "pushFailed"))
    /\ nextMenu' = nextMenu + 1
    /\ menu' = Append(menu, SubMenuItem(Top.menu, nextMenu + 1, nextCmdId,
                                        Current.node, ChildBmp))
    /\ bufs' = WithChild(bufs)
    /\ bmps' = WithBmp(bmps)
    /\ nextCmdId' = nextCmdId + 1
    /\ \E garbage \in Uninitialized(icons) :
         icons' = IconForPath(icons, tree.nodes[Current.node], garbage)
    /\ stack' = Append([stack EXCEPT ![Len(stack)].idx = @ + 1],
                       Frame(Current.node, nextMenu + 1, ChildDepth(Top.depth)))
    /\ UNCHANGED <<nullIconAt, pc, tree, maxDepth, popup, buildHr, lastHr, choice,
                   dropVars, finds, proc>>

\* FindNextFileW returned FALSE: FindClose and return S_OK.
EnumerateFolderDone ==
    /\ InWalk
    /\ Top.phase = "loop"
    /\ Top.idx > Len(Listing(tree, Top.dir))
    /\ finds' = [finds EXCEPT ![Top.hFind] = @ + 1]
    /\ Return("S_OK")
    /\ UNCHANGED <<vecVars, tree, maxDepth, nextCmdId, menu, nextMenu, popup, bufs, bmps,
                   walkLog, choice, dropVars, icons, proc>>

\* Mutant of BuildSucceeded: the test of outItems->count is missing.
BuildSucceededAnyCount(hr, count) == hr = "S_OK"

\* BuildSendToMenu returns TRUE: neither FAILED(hr) nor count == 0.
BuildSucceeded(hr, count) == hr = "S_OK" /\ count # 0

\* ERR_BOX(msg): one more modal message box was shown.
ErrBox(p) == [p EXCEPT !.boxes = @ + 1]

\* BuildSendToMenu after EnumerateFolder returned: ERR_BOX and FALSE, or TRUE.
BuildSendToMenuEnd ==
    /\ pc = "built"
    /\ IF BuildSucceeded(buildHr, vec.count)
       THEN pc' = "menu" /\ proc' = proc
       ELSE pc' = "failed" /\ proc' = ErrBox(proc)
    /\ UNCHANGED <<vecVars, tree, maxDepth, stack, nextCmdId, menu, nextMenu, popup,
                   bufs, bmps, walkLog, buildHr, lastHr, choice, dropVars, icons, finds>>

\* The command ids TrackPopupMenuEx can return: those of the leaf items
\* of the popup and its submenus; none when the popup is NULL.
LeafIds ==
    IF popup = NULL
    THEN {}
    ELSE {menu[i].id : i \in {j \in 1..Len(menu) : menu[j].kind = "leaf"}}

DisplaySendToMenu ==
    /\ pc = "menu"
    /\ choice' \in {0} \cup LeafIds
    /\ pc' = "chosen"
    /\ proc' = [proc EXCEPT !.shown = TRUE]
    /\ UNCHANGED <<vecVars, tree, maxDepth, stack, nextCmdId, menu, nextMenu, popup,
                   bufs, bmps, walkLog, buildHr, lastHr, dropVars, icons, finds>>

\* RunSendTo after the menu: `item = &menuItems.items[choice - 1]` when a
\* command was chosen.
RunSendToSelect ==
    /\ pc = "chosen"
    /\ pc' = IF choice # 0 THEN "selected" ELSE "dismissed"
    /\ UNCHANGED <<vecVars, tree, maxDepth, stack, nextCmdId, menu, nextMenu, popup,
                   bufs, bmps, walkLog, buildHr, lastHr, choice, dropVars, icons, finds, proc>>

(***************************************************************************)
(* Shell capability binding and drag and drop: PathToPIDL,                 *)
(* GetShellInterfaceForPaths, GetShellInterfaceForPIDLs,                   *)
(* ExecuteDropOperation, ExecuteDragDrop                                   *)
(***************************************************************************)
\* A PIDL ("pidl"), a parent IShellFolder ("folder") or a capability
\* ("dataobj", "droptarget") obtained by the call `call` ("src" or "dst") for
\* its path number `for`, and how often it was released.
Ref(kind, call, for) == [kind |-> kind, call |-> call, for |-> for, releases |-> 0]

\* One call on a shell object, or the release of a reference.
Call(op, h, info) == [op |-> op, h |-> h, info |-> info]

\* Mutant of SafeRelease: the pointer is only set to NULL.
SafeReleaseForgets(r, p) == r

\* SAFE_RELEASE(p): Release() unless p is NULL.
SafeRelease(r, p) == IF p # NULL THEN [r EXCEPT ![p].releases = @ + 1] ELSE r

LogRelease(c, p) == IF p # NULL THEN Append(c, Call("Release", p, NULL)) ELSE c

\* Mutant of CleanupRange: the cleanup loop starts at index 1 of the C array.
CleanupRangeFromSecond(upTo) == 2..upTo

\* The (1-based) slots of pidlArray a cleanup loop with bound upTo frees.
CleanupRange(upTo) == 1..upTo

\* CoTaskMemFree of the slots of pidlArray in `range`.
FreePidls(r, pidls, range) ==
    [h \in 1..Len(r) |->
        IF \E i \in range : pidls[i] = h
        THEN [r[h] EXCEPT !.releases = @ + 1]
        ELSE r[h]]

\* Mutant of DropAccepted: the returned effect is not looked at.
DropAcceptedAnyEffect(hrEnterOk, effect) == hrEnterOk

\* `SUCCEEDED(hrEnter) && effect` in ExecuteDropOperation.
DropAccepted(hrEnterOk, effect) == hrEnterOk /\ effect # 0

\* The DROPEFFECT values DragEnter may hand back: none, copy, move.
Effects == {0, 1, 2}

\* GetShellInterfaceForPaths(owner, paths, pathCount, iid, ppv) at its
\* first line.  which: "src" (IID_IDataObject) or "dst" (IID_IDropTarget).
GsCall(which, pathCount) ==
    [pc |-> "enter", which |-> which, count |-> pathCount, idx |-> 0,
     pidls |-> <<>>, parent |-> NULL, hr |-> "none", out |-> NULL,
     failure |-> "none"]

GsIdle == [pc |-> "idle"]

\* GetShellInterfaceForPaths returns hr with *ppvInterface = out.
GsReturn(hr, out, failure) ==
    [gs EXCEPT !.pc = "ret", !.hr = hr, !.out = out, !.failure = failure,
               !.parent = NULL]

Capability(which) == IF which = "src" THEN "dataobj" ELSE "droptarget"

\* The argument check and the calloc of pidlArray.
PathsEnter ==
    /\ gs.pc = "enter"
    /\ gs' = IF gs.count <= 0
             THEN GsReturn("E_INVALIDARG", NULL, "arg")
             ELSE [gs EXCEPT !.pc = "parse", !.idx = 1]
    /\ UNCHANGED <<vecVars, walkVars, proc, dd, refs, calls>>

PathsAllocFails ==
    /\ gs.pc = "enter"
    /\ gs.count > 0
    /\ faults < MaxFaults
    /\ faults' = faults + 1
    /\ gs' = GsReturn("E_OUTOFMEMORY", NULL, "alloc")
    /\ UNCHANGED <<vec, vecBefore, pushLog, nullIconAt, walkVars, proc, dd, refs, calls>>

\* PathToPIDL yields a PIDL for paths[idx].
ParsePath ==
    /\ gs.pc = "parse"
    /\ refs' = Append(refs, Ref("pidl", gs.which, gs.idx))
    /\ gs' = [gs EXCEPT !.pidls = Append(@, Len(refs) + 1),
                        !.idx = IF gs.idx = gs.count THEN 0 ELSE @ + 1,
                        !.pc = IF gs.idx = gs.count THEN "pidls" ELSE "parse"]
    /\ UNCHANGED <<vecVars, walkVars, proc, dd, calls>>

\* PathToPIDL returns NULL for paths[idx]: the PIDLs before it are freed.
ParsePathFails ==
    /\ gs.pc = "parse"
    /\ refs' = FreePidls(refs, gs.pidls, CleanupRange(gs.idx - 1))
    /\ gs' = GsReturn("E_FAIL", NULL, "parse")
    /\ UNCHANGED <<vecVars, walkVars, proc, dd, calls>>

\* GetShellInterfaceForPIDLs: calloc of childIDs, *ppvInterface = NULL.
PidlsEnter ==
    /\ gs.pc = "pidls"
    /\ gs' = [gs EXCEPT !.pc = "bind", !.idx = 1, !.parent = NULL, !.out = NULL]
    /\ UNCHANGED <<vecVars, walkVars, proc, dd, refs, calls>>

\* calloc of childIDs fails; GetShellInterfaceForPaths frees all PIDLs.
PidlsAllocFails ==
    /\ gs.pc = "pidls"
    /\ faults < MaxFaults
    /\ faults' = faults + 1
    /\ refs' = FreePidls(refs, gs.pidls, CleanupRange(gs.count))
    /\ gs' = GsReturn("E_OUTOFMEMORY", NULL, "alloc")
    /\ UNCHANGED <<vec, vecBefore, pushLog, nullIconAt, walkVars, proc, dd, calls>>

\* SHBindToParent succeeds for pidlArray[idx]; every parent but the last is
\* released at once.
BindToParent ==
    /\ gs.pc = "bind"
    /\ LET folder == Len(refs) + 1
           bound  == Append(refs, Ref("folder", gs.which, gs.idx))
       IN  IF gs.idx < gs.count
           THEN /\ refs' = SafeRelease(bound, folder)
                /\ calls' = LogRelease(calls, folder)
                /\ gs' = [gs EXCEPT !.parent = NULL, !.idx = @ + 1]
           ELSE /\ refs' = bound
                /\ calls' = calls
                /\ gs' = [gs EXCEPT !.parent = folder, !.pc = "uiobject"]
    /\ UNCHANGED <<vecVars, walkVars, proc, dd>>

\* SHBindToParent fails for pidlArray[idx] (parentFolder is NULL then);
\* GetShellInterfaceForPaths frees all PIDLs.
BindToParentFails ==
    /\ gs.pc = "bind"
    /\ refs' = FreePidls(SafeRelease(refs, gs.parent), gs.pidls, CleanupRange(gs.count))
    /\ calls' = LogRelease(calls, gs.parent)
    /\ gs' = GsReturn("E_FAIL", NULL, "bind")
    /\ UNCHANGED <<vecVars, walkVars, proc, dd>>

\* GetUIObjectOf on the last parent: it fails, yields the capability, or
\* succeeds with a NULL pointer; then the parent and all PIDLs are released.
GetUIObjectOf ==
    /\ gs.pc = "uiobject"
    /\ \E outcome \in {"E_FAIL", "S_OK", "S_NULL"} :
         LET cap      == IF outcome = "S_OK" THEN Len(refs) + 1 ELSE NULL
             obtained == IF outcome = "S_OK"
                         THEN Append(refs, Ref(Capability(gs.which), gs.which, 0))
                         ELSE refs
         IN  /\ refs' = FreePidls(SafeRelease(obtained, gs.parent), gs.pidls,
                                  CleanupRange(gs.count))
             /\ calls' = LogRelease(
                            Append(calls, Call("GetUIObjectOf", gs.parent,
                                               [n |-> gs.count, ids |-> gs.pidls])),
                            gs.parent)
             /\ gs' = GsReturn(IF outcome = "E_FAIL" THEN "E_FAIL" ELSE "S_OK",
                               cap, "none")
    /\ UNCHANGED <<vecVars, walkVars, proc, dd>>

\* ExecuteDragDrop(owner, entry, argc, argv) at its first line, argc - 1 = n.
DdCall(n) ==
    [pc |-> "start", n |-> n, dataObj |-> NULL, dropTarget |-> NULL,
     dstHr |-> "none", dstOut |-> NULL, hrEnterOk |-> FALSE, effect |-> 0]

ExecuteDragDropBegin ==
    /\ dd.pc = "start"
    /\ gs' = GsCall("src", dd.n)
    /\ dd' = [dd EXCEPT !.pc = "src"]
    /\ UNCHANGED <<vecVars, walkVars, proc, refs, calls>>

\* The first GetShellInterfaceForPaths returned.
AfterSource ==
    /\ dd.pc = "src"
    /\ gs.pc = "ret"
    /\ IF gs.hr # "S_OK" \/ gs.out = NULL
       THEN /\ dd' = [dd EXCEPT !.pc = "done", !.dataObj = gs.out]
            /\ gs' = GsIdle
       ELSE /\ dd' = [dd EXCEPT !.pc = "dst", !.dataObj = gs.out]
            /\ gs' = GsCall("dst", 1)
    /\ UNCHANGED <<vecVars, walkVars, proc, refs, calls>>

\* The second GetShellInterfaceForPaths returned: go on to
\* ExecuteDropOperation, or release the data object and return.
AfterDestination ==
    /\ dd.pc = "dst"
    /\ gs.pc = "ret"
    /\ gs' = GsIdle
    /\ IF gs.hr = "S_OK" /\ gs.out # NULL
       THEN /\ dd' = [dd EXCEPT !.pc = "enter", !.dropTarget = gs.out, !.dstHr = gs.hr,
                                !.dstOut = gs.out]
            /\ UNCHANGED <<refs, calls>>
       ELSE /\ dd' = [dd EXCEPT !.pc = "done", !.dropTarget = gs.out, !.dstHr = gs.hr,
                                !.dstOut = gs.out]
            /\ refs' = SafeRelease(refs, dd.dataObj)
            /\ calls' = LogRelease(calls, dd.dataObj)
    /\ UNCHANGED <<vecVars, walkVars, proc>>

\* ExecuteDropOperation up to DragEnter.
DragEnter ==
    /\ dd.pc = "enter"
    /\ IF dd.dataObj = NULL \/ dd.dropTarget = NULL
       THEN /\ dd' = [dd EXCEPT !.pc = "release"]
            /\ calls' = calls
       ELSE \E hrEnterOk \in BOOLEAN, effect \in Effects :
            /\ dd' = [dd EXCEPT !.pc = "entered", !.hrEnterOk = hrEnterOk,
                                !.effect = effect]
            /\ calls' = Append(calls, Call("DragEnter", dd.dropTarget,
                                 [data |-> dd.dataObj, ok |-> hrEnterOk,
                                  effect |-> effect]))
    /\ UNCHANGED <<vecVars, walkVars, proc, gs, refs>>

\* ExecuteDropOperation after DragEnter: Drop or DragLeave.
DropOrLeave ==
    /\ dd.pc = "entered"
    /\ calls' = Append(calls,
                  Call(IF DropAccepted(dd.hrEnterOk, dd.effect) THEN "Drop" ELSE "DragLeave",
                       dd.dropTarget, [data |-> dd.dataObj, ok |-> TRUE,
                                       effect |-> dd.effect]))
    /\ dd' = [dd EXCEPT !.pc = "release"]
    /\ UNCHANGED <<vecVars, walkVars, proc, gs, refs>>

\* SAFE_RELEASE(pDropTarget); SAFE_RELEASE(pDataObj); return.
ExecuteDragDropRelease ==
    /\ dd.pc = "release"
    /\ refs' = SafeRelease(SafeRelease(refs, dd.dropTarget), dd.dataObj)
    /\ calls' = LogRelease(LogRelease(calls, dd.dropTarget), dd.dataObj)
    /\ dd' = [dd EXCEPT !.pc = "done", !.dropTarget = NULL, !.dataObj = NULL]
    /\ UNCHANGED <<vecVars, walkVars, proc, gs>>

(***************************************************************************)
(* The process: wWinMain, InitializeApplication, ParseCommandLine,         *)
(* ValidateSendToDirectory, RunSendTo                                      *)
(***************************************************************************)
\* The process at the first line of wWinMain.  rawArgv: the arguments after
\* the program name; dest: what the destination root path names.
\* ole / oleUninit: successful OleInitialize and OleUninitialize calls;
\* desktop: the pointer desktopShellFolder; desktopRefs / desktopReleases:
\* references SHGetDesktopFolder handed out and Release calls on them.
\* A PWSTR that is NULL, path strings being strings in the model.
NoPath == ""

\* The exit codes of <stdlib.h>, and the value of proc.exit while wWinMain
\* has not returned.
EXIT_SUCCESS == 0
EXIT_FAILURE == 1
NoExit       == -1

ProcStart(args, dest) ==
    [rawArgv |-> args, dest |-> dest,
     ole |-> 0, oleUninit |-> 0,
     desktop |-> NULL, desktopRefs |-> 0, desktopReleases |-> 0,
     uxTheme |-> FALSE,
     sendToDir |-> NoPath, cleanArgc |-> 0,
     boxes |-> 0, shown |-> FALSE,
     transfers |-> <<>>, opened |-> <<>>,
     exit |-> NoExit]

\* The process when RunSendTo calls BuildSendToMenu.
ProcReady(args, argc) ==
    [ProcStart(args, "directory") EXCEPT
        !.ole = 1, !.desktop = 1, !.desktopRefs = 1, !.uxTheme = TRUE,
        !.sendToDir = "default", !.cleanArgc = argc]

\* `return code;` out of wWinMain.
Exit(p, code) == [p EXCEPT !.exit = code]

\* The steps of InitializeApplication that can fail, in order.
InitSteps == <<"OleInitialize", "InitCommonControlsEx", "SHGetDesktopFolder",
               "LoadLibraryW">>

\* InitializeApplication when the step `failing` fails ("none": no step).
InitializeApplicationUpTo(p, failing) ==
    LET ole      == IF failing = "OleInitialize" THEN p
                    ELSE [p EXCEPT !.ole = @ + 1]
        controls == IF failing = "InitCommonControlsEx"
                    THEN [ole EXCEPT !.oleUninit = @ + 1]
                    ELSE ole
        desktop  == IF failing \in {"OleInitialize", "InitCommonControlsEx",
                                    "SHGetDesktopFolder"}
                    THEN controls
                    ELSE [controls EXCEPT !.desktop = 1, !.desktopRefs = @ + 1]
    IN  IF failing = "none" THEN [desktop EXCEPT !.uxTheme = TRUE] ELSE desktop

\* wWinMain up to CommandLineToArgvW.
InitializeApplication ==
    /\ pc = "start"
    /\ \E failing \in {"none"} \cup {InitSteps[i] : i \in 1..Len(InitSteps)} :
         LET p == InitializeApplicationUpTo(proc, failing) IN
         IF failing = "none"
         THEN pc' = "argv" /\ proc' = p
         ELSE pc' = "exited" /\ proc' = Exit(p, EXIT_FAILURE)
    /\ UNCHANGED <<vecVars, tree, maxDepth, stack, nextCmdId, menu, nextMenu, popup,
                   bufs, bmps, walkLog, buildHr, lastHr, choice, dropVars, icons, finds>>

\* CommandLineToArgvW in wWinMain: NULL ends the program.
CommandLineToArgv ==
    /\ pc = "argv"
    /\ \E allocOk \in BOOLEAN :
         /\ allocOk \/ faults < MaxFaults
         /\ faults' = IF allocOk THEN faults ELSE faults + 1
         /\ IF allocOk
            THEN pc' = "parse" /\ proc' = proc
            ELSE pc' = "exited" /\ proc' = Exit(proc, EXIT_FAILURE)
    /\ UNCHANGED <<vec, vecBefore, pushLog, nullIconAt, tree, maxDepth, stack,
                   nextCmdId, menu, nextMenu, popup, bufs, bmps, walkLog, buildHr,
                   lastHr, choice, dropVars, icons, finds>>

HelpSwitches == {"/?", "-?"}

DirSwitches == {"/D", "/d"}

ParseResult(ok, dir, argc, boxes) ==
    [ok |-> ok, dir |-> dir, argc |-> argc, boxes |-> boxes]

\* The for loop of ParseCommandLine from args[i] on (args[i] is rawArgv[i]
\* of the C code, the program name being rawArgv[0]).
RECURSIVE ScanArgs(_, _, _, _, _)
ScanArgs(args, i, dir, argc, dupOk) ==
    IF i > Len(args) THEN ParseResult(TRUE, dir, argc, 0)
    ELSE IF args[i] \in HelpSwitches THEN ParseResult(FALSE, dir, argc, 1)
    ELSE IF args[i] \in DirSwitches
         THEN IF i + 1 <= Len(args)
              THEN IF dupOk
                   THEN ScanArgs(args, i + 2, args[i + 1], argc, dupOk)
                   ELSE ParseResult(FALSE, NoPath, argc, 0)
              ELSE ParseResult(FALSE, dir, argc, 1)
         ELSE ScanArgs(args, i + 1, dir, argc + 1, dupOk)

\* ParseCommandLine: [ok, dir (*outDir), argc (*outArgc), boxes shown].
ParseCommandLine(args, mallocOk, dupOk) ==
    IF ~mallocOk
    THEN ParseResult(FALSE, NoPath, 1, 0)
    ELSE ScanArgs(args, 1, NoPath, 1, dupOk)

\* Whether ParseCommandLine reaches the _wcsdup of a directory argument.
Duplicates(args) ==
    \E i \in 1..(Len(args) - 1) :
        /\ args[i] \in DirSwitches
        /\ \A j \in 1..(i - 1) : args[j] \notin HelpSwitches \cup DirSwitches

\* RunSendTo up to the return of ParseCommandLine.
RunSendToParse ==
    /\ pc = "parse"
    /\ \E mallocOk, dupOk \in BOOLEAN :
         LET r      == ParseCommandLine(proc.rawArgv, mallocOk, dupOk)
             failed == (IF mallocOk THEN 0 ELSE 1)
                         + (IF mallocOk /\ ~dupOk THEN 1 ELSE 0)
         IN  /\ dupOk \/ (mallocOk /\ Duplicates(proc.rawArgv))
             /\ faults + failed <= MaxFaults
             /\ faults' = faults + failed
             /\ IF r.ok
                THEN /\ pc' = "validate"
                     /\ proc' = [proc EXCEPT !.sendToDir = r.dir, !.cleanArgc = r.argc]
                ELSE /\ pc' = "exited"
                     /\ proc' = Exit([proc EXCEPT !.boxes = @ + r.boxes], EXIT_FAILURE)
    /\ UNCHANGED <<vec, vecBefore, pushLog, nullIconAt, tree, maxDepth, stack,
                   nextCmdId, menu, nextMenu, popup, bufs, bmps, walkLog, buildHr,
                   lastHr, choice, dropVars, icons, finds>>

\* ValidateSendToDirectory(path): path, PathFileExistsW and PathIsDirectoryW.
ValidateSendToDirectory(path, dest) == path # NoPath /\ dest = "directory"

\* RunSendTo from ResolveSendToDirectory to the return of
\* ValidateSendToDirectory.
RunSendToValidate ==
    /\ pc = "validate"
    /\ \E mallocOk \in BOOLEAN :
         LET path == IF proc.sendToDir # NoPath THEN proc.sendToDir
                     ELSE IF mallocOk THEN "default" ELSE NoPath
         IN  /\ mallocOk \/ (proc.sendToDir = NoPath /\ faults < MaxFaults)
             /\ faults' = IF mallocOk THEN faults ELSE faults + 1
             /\ IF ValidateSendToDirectory(path, proc.dest)
                THEN /\ pc' = "build"
                     /\ proc' = [proc EXCEPT !.sendToDir = path]
                ELSE /\ pc' = "exited"
                     /\ proc' = Exit(ErrBox([proc EXCEPT !.sendToDir = path]),
                                     EXIT_FAILURE)
    /\ UNCHANGED <<vec, vecBefore, pushLog, nullIconAt, tree, maxDepth, stack,
                   nextCmdId, menu, nextMenu, popup, bufs, bmps, walkLog, buildHr,
                   lastHr, choice, dropVars, icons, finds>>

\* RunSendTo when BuildSendToMenu returned FALSE.
RunSendToBuildFailed ==
    /\ pc = "failed"
    /\ pc' = "exited"
    /\ proc' = Exit(proc, EXIT_FAILURE)
    /\ UNCHANGED <<vecVars, tree, maxDepth, stack, nextCmdId, menu, nextMenu, popup,
                   bufs, bmps, walkLog, buildHr, lastHr, choice, dropVars, icons, finds>>

\* Mutant of HasSources: the program name is counted as a source path.
HasSourcesCountingExe(cleanArgc) == cleanArgc > 0

\* `cleanArgc > 1` in RunSendTo.
HasSources(cleanArgc) == cleanArgc > 1

\* RunSendTo with a command chosen: item = &menuItems.items[choice - 1],
\* then ExecuteDragDrop(owner, item, cleanArgc, cleanArgv) or ShellExecuteW
\* of item->path.
RunSendToDispatch ==
    /\ pc = "selected"
    /\ LET item == vec.items[choice] IN
       IF HasSources(proc.cleanArgc)
       THEN /\ pc' = "drop"
            /\ dd' = DdCall(proc.cleanArgc - 1)
            /\ proc' = [proc EXCEPT !.transfers =
                            Append(@, [entry |-> choice, path |-> item.path,
                                       n |-> proc.cleanArgc - 1])]
       ELSE /\ pc' = "release"
            /\ dd' = dd
            /\ proc' = [proc EXCEPT !.opened =
                            Append(@, [entry |-> choice, path |-> item.path])]
    /\ UNCHANGED <<vecVars, tree, maxDepth, stack, nextCmdId, menu, nextMenu, popup,
                   bufs, bmps, walkLog, buildHr, lastHr, choice, gs, refs, calls,
                   icons, finds>>

\* The end of RunSendTo: SAFE_RELEASE(desktopShellFolder), OleUninitialize,
\* return EXIT_SUCCESS.
RunSendToRelease ==
    /\ \/ pc \in {"dismissed", "release"}
       \/ pc = "drop" /\ dd.pc = "done"
    /\ pc' = "exited"
    /\ proc' = Exit([proc EXCEPT
                        !.desktopReleases = IF proc.desktop # NULL THEN @ + 1 ELSE @,
                        !.desktop = NULL,
                        !.oleUninit = @ + 1],
                    EXIT_SUCCESS)
    /\ UNCHANGED <<vecVars, tree, maxDepth, stack, nextCmdId, menu, nextMenu, popup,
                   bufs, bmps, walkLog, buildHr, lastHr, choice, dropVars, icons, finds>>

(***************************************************************************)
(* The Entry Store on its own: VectorPush calls on an empty store          *)
(***************************************************************************)
\* Every call passes a fresh path buffer and, except for the call
\* nullIconAt, a fresh bitmap; realloc may fail whenever it is called.
VecPush ==
    /\ pc = "idle"
    /\ Len(pushLog) < MaxPushes
    /\ \E reallocOk \in BOOLEAN :
         LET k    == Len(pushLog) + 1
             icon == IF k = nullIconAt THEN NULL ELSE k
             r    == VectorPush(vec, k, icon, reallocOk)
         IN  /\ reallocOk \/ (NeedsGrowth(vec) /\ faults < MaxFaults)
             /\ faults' = IF reallocOk THEN faults ELSE faults + 1
             /\ vecBefore' = vec
             /\ vec' = r.vec
             /\ pushLog' = Append(pushLog, PushRecord("vec", r.ok, k, icon))
    /\ UNCHANGED <<nullIconAt, walkVars, proc, dropVars>>

\* A record of pushLog for a direct call VectorEnsureCapacity(vec, need).
ReserveRecord(ok, need) == [site |-> "reserve", ok |-> ok, need |-> need]

Reserves == SelectSeq(pushLog, LAMBDA p : p.site = "reserve")

\* The values of `need` the model calls VectorEnsureCapacity with: nothing,
\* one slot, the base capacity and its neighbours, more than twice the
\* capacity of a store that has grown once.
ReserveNeeds ==
    {0, 1, BaseCapacity, BaseCapacity + 1, 2 * BaseCapacity + 1, 4 * BaseCapacity + 3}

\* VectorEnsureCapacity(vec, need) called on its own; realloc may fail
\* whenever it is called.
VecReserve ==
    /\ pc = "idle"
    /\ Len(Reserves) < MaxReserves
    /\ \E need \in ReserveNeeds, reallocOk \in BOOLEAN :
         LET r == VectorEnsureCapacity(vec, need, reallocOk)
         IN  /\ reallocOk \/ (need > vec.capacity /\ faults < MaxFaults)
             /\ faults' = IF reallocOk THEN faults ELSE faults + 1
             /\ vecBefore' = vec
             /\ vec' = r.vec
             /\ pushLog' = Append(pushLog, ReserveRecord(r.ok, need))
    /\ UNCHANGED <<nullIconAt, walkVars, dropVars, proc>>

(***************************************************************************)
(* Initial states and specifications                                       *)
(***************************************************************************)
VecIdle ==
    /\ vec = EmptyVector
    /\ vecBefore = EmptyVector
    /\ pushLog = <<>>
    /\ faults = 0

WalkIdle ==
    /\ pc = "idle"
    /\ tree = TreeEmptyDrive
    /\ maxDepth = MAX_DEPTH
    /\ stack = <<>>
    /\ nextCmdId = 0
    /\ menu = <<>>
    /\ nextMenu = 0
    /\ popup = NULL
    /\ bufs = <<>>
    /\ bmps = <<>>
    /\ walkLog = <<>>
    /\ buildHr = "none"
    /\ lastHr = "none"
    /\ choice = 0
    /\ icons = <<>>
    /\ finds = <<>>

\* The process as the specifications of single components find it.
ProcIdle == ProcReady(<<>>, 1)

DropIdle ==
    /\ dd = [pc |-> "idle"]
    /\ gs = GsIdle
    /\ refs = <<>>
    /\ calls = <<>>

\* The run from BuildSendToMenu to the selection, over every tree of Trees.
Init ==
    /\ VecIdle
    /\ nullIconAt = 0
    /\ pc = "build"
    /\ tree \in Trees
    /\ maxDepth = MAX_DEPTH
    /\ stack = <<>>
    /\ nextCmdId = 0
    /\ menu = <<>>
    /\ nextMenu = 0
    /\ popup = NULL
    /\ bufs = <<>>
    /\ bmps = <<>>
    /\ walkLog = <<>>
    /\ buildHr = "none"
    /\ lastHr = "none"
    /\ choice = 0
    /\ icons = <<>>
    /\ finds = <<>>
    /\ DropIdle
    /\ proc = ProcIdle

Next ==
    \/ BuildSendToMenuBegin
    \/ EnumerateFolderDepthStop
    \/ EnumerateFolderNotDirectory
    \/ EnumerateFolderPatternFails
    \/ EnumerateFolderFindFails
    \/ EnumerateFolderOpen
    \/ VisitSkipped
    \/ VisitMallocFails
    \/ VisitCombineFails
    \/ VisitFile
    \/ VisitDirectoryNoSubMenu
    \/ VisitDirectory
    \/ EnumerateFolderDone
    \/ BuildSendToMenuEnd
    \/ DisplaySendToMenu
    \/ RunSendToSelect

Spec == Init /\ [][Next]_vars

\* The pushes whose icon is NULL in SpecVec: none, the first, the last of
\* the first buffer, the first after the growth.
NullIconPositions == {0, 1, BaseCapacity, BaseCapacity + 1}

InitVec ==
    /\ VecIdle
    /\ nullIconAt \in NullIconPositions
    /\ WalkIdle
    /\ DropIdle
    /\ proc = ProcIdle

NextVec == VecPush

SpecVec == InitVec /\ [][NextVec]_vars

\* The store after n successful VectorPush calls on an empty store, and the
\* records of those calls.
RECURSIVE PushFrom(_, _, _)
PushFrom(v, k, n) ==
    IF k > n
    THEN v
    ELSE CHOOSE last \in {PushFrom(w, k + 1, n) : w \in {VectorPush(v, k, k, TRUE).vec}} : TRUE

Filled(n) == PushFrom(EmptyVector, 1, n)

FilledLog(n) == [k \in 1..n |-> PushRecord("vec", TRUE, k, k)]

\* The sizes of the stores VectorEnsureCapacity is called on: empty, one
\* entry, a full first buffer, one entry beyond it.
ReserveCounts == {0, 1, BaseCapacity, BaseCapacity + 1}

\* VectorEnsureCapacity calls on stores that pushes have filled.
InitReserve ==
    /\ \E n \in ReserveCounts :
         /\ vec = Filled(n)
         /\ vecBefore = Filled(n)
         /\ pushLog = FilledLog(n)
    /\ faults = 0
    /\ nullIconAt = 0
    /\ WalkIdle
    /\ DropIdle
    /\ proc = ProcIdle

NextReserve == VecReserve

SpecReserve == InitReserve /\ [][NextReserve]_vars

(***************************************************************************)
(* Properties of the menu builder (checked under Spec)                     *)
(***************************************************************************)
\* The outermost EnumerateFolder call has returned.
AfterBuild == pc \in {"built", "failed", "menu", "chosen", "selected", "dismissed"}

Items == {menu[i] : i \in 1..Len(menu)}

SubMenus == {m \in Items : m.kind = "sub"}

Visits == 1..Len(walkLog)

\* The node the path of the store entry at (1-based) index i names.
EntryNode(i) == bufs[vec.items[i].path].node

NodeIds(t) == 1..Len(t.nodes)

Parent(t, n) ==
    CHOOSE p \in NodeIds(t) : \E i \in 1..Len(t.nodes[p].kids) : t.nodes[p].kids[i] = n

\* The number of directories between the destination root and node n,
\* the root's children being at level 1.
RECURSIVE Level(_, _)
Level(t, n) == IF n = Root THEN 0 ELSE 1 + Level(t, Parent(t, n))

TreeDepth(t) == CHOOSE d \in 0..Len(t.nodes) :
                    /\ \A n \in NodeIds(t) : Level(t, n) <= d
                    /\ \E n \in NodeIds(t) : Level(t, n) = d

\* C1: after the walk every leaf item with command id k and every submenu
\* with context-help id k has the store entry at index k-1, and the path of
\* that entry names the file or directory the item was created for.
C1_Lockstep ==
    AfterBuild =>
        \A m \in Items :
            /\ m.id \in 1..vec.count
            /\ EntryNode(m.id) = m.node

\* C2: the command id DisplaySendToMenu returns is in [0, count], so that
\* items[choice - 1] in RunSendTo is a populated entry of the store.
C2_ChoiceInRange ==
    /\ pc \in {"chosen", "selected", "dismissed"} => choice \in 0..vec.count
    /\ pc = "selected" => choice - 1 < vec.count

\* The entries the claim C3 counts: returned by the enumeration, neither
\* hidden nor system, "." and ".." not being entries of the tree.
Encountered ==
    {i \in Visits : /\ ~walkLog[i].hidden
                    /\ ~walkLog[i].system
                    /\ walkLog[i].name \notin {".", ".."}}

\* Entries dropped because CombinePath, CreatePopupMenu or VectorPush failed.
Dropped == {i \in Visits : walkLog[i].fate \in {"noPath", "noSubMenu", "pushFailed"}}

FailedBefore(path) ==
    LET j == CHOOSE k \in 1..Len(pushLog) : pushLog[k].path = path
    IN  Cardinality({k \in 1..(j - 1) : ~pushLog[k].ok})

Enumerating == {i \in 1..Len(stack) : stack[i].phase = "loop"}

C4_Produced ==
    /\ \A i \in 1..vec.count : Level(tree, EntryNode(i)) <= maxDepth
    /\ \A m \in Items : Level(tree, m.node) <= maxDepth
    /\ \A i \in Visits : walkLog[i].depth < maxDepth
    /\ Cardinality(Enumerating) <= maxDepth

C4_ImmediateReturn ==
    (InCall /\ Top.depth >= maxDepth) =>
        /\ stack' = Pop(stack)
        /\ lastHr' = "S_OK"
        /\ menu' = menu
        /\ vec' = vec
        /\ nextCmdId' = nextCmdId

\* C4: a call of EnumerateFolder with depth >= MAX_DEPTH returns S_OK at
\* once and leaves menu, store and command id counter unchanged; so nothing
\* below level MAX_DEPTH of the tree ever gets a store entry or a menu item,
\* and at most MAX_DEPTH calls are enumerating at any time.
C4_DepthBound == [](C4_Produced) /\ [][C4_ImmediateReturn]_vars

\* The walk of a tree deeper than the bound is over, an entry of level
\* MAX_DEPTH is in the store and the call on it returned at the depth test.
C4_Witness ==
    /\ AfterBuild
    /\ TreeDepth(tree) > maxDepth
    /\ \E i \in 1..vec.count :
         /\ Level(tree, EntryNode(i)) = maxDepth
         /\ tree.nodes[EntryNode(i)].isDir

\* C9: whenever a VectorPush of the menu builder fails, its caller frees the
\* path buffer and deletes the icon exactly once; whenever it succeeds, the
\* caller releases neither.
C9_CallerDisposesOnFailedPush ==
    \A k \in 1..Len(pushLog) :
        LET p == pushLog[k] IN
        p.site \in {"file", "dir"} =>
            /\ ~p.ok => /\ bufs[p.path].frees = 1
                        /\ p.icon # NULL => bmps[p.icon] = 1
            /\ p.ok  => /\ bufs[p.path].frees = 0
                        /\ p.icon # NULL => bmps[p.icon] = 0

\* The entries the listing of directory d has returned so far.
VisitsOf(d) == SelectSeq(walkLog, LAMBDA v : v.dir = d)

Frames == {stack[i] : i \in 1..Len(stack)}

\* The listing of d was started / was started and its call has returned.
Started(d) == VisitsOf(d) # <<>> \/ \E f \in Frames : f.dir = d /\ f.phase = "loop"

Finished(d) == Started(d) /\ ~ \E f \in Frames : f.dir = d

Directories(t) == {n \in NodeIds(t) : t.nodes[n].isDir}

C14_Swallowed ==
    /\ (buildHr # "none" /\ Started(Root)) => buildHr = "S_OK"
    /\ \A d \in Directories(tree) :
         Started(d) =>
            /\ Len(VisitsOf(d)) <= Len(Listing(tree, d))
            /\ \A i \in 1..Len(VisitsOf(d)) :
                 /\ VisitsOf(d)[i].node = Listing(tree, d)[i].node
                 /\ VisitsOf(d)[i].name = Listing(tree, d)[i].name
            /\ Finished(d) => Len(VisitsOf(d)) = Len(Listing(tree, d))

C14_ErrorOnlyAtStart ==
    (InWalk /\ (Len(stack') < Len(stack) \/ lastHr' # lastHr)) =>
        /\ stack' = Pop(stack)
        /\ lastHr' # "S_OK" => Top.phase = "call"

\* C14: once the listing of the destination root has started the outermost
\* EnumerateFolder returns S_OK, whatever fails for single entries or in
\* nested calls; the entries of every listing that started are all visited,
\* in listing order, whatever happened to the entries before them; and a
\* call returns an error only before its own listing has started.
C14_FailuresSwallowed == [](C14_Swallowed) /\ [][C14_ErrorOnlyAtStart]_vars

\* The build succeeded although a path could not be combined and the
\* listing of a nested directory could not be started, and an entry that
\* follows that directory in its listing was stored.
C14_Witness ==
    /\ AfterBuild
    /\ buildHr = "S_OK"
    /\ \E k \in Visits : walkLog[k].fate = "noPath"
    /\ \E i, j \in Visits :
         /\ i < j
         /\ walkLog[i].dir = walkLog[j].dir
         /\ walkLog[i].isDir /\ walkLog[i].node # NULL
         /\ tree.nodes[walkLog[i].node].denied
         /\ walkLog[i].fate \in {"pushed", "pushFailed"}
         /\ walkLog[j].fate = "pushed"

\* Node n, or a directory on the way from the destination root to it, is
\* hidden or system.
RECURSIVE Excluded(_, _)
Excluded(t, n) ==
    IF n = Root THEN FALSE
    ELSE t.nodes[n].hidden \/ t.nodes[n].system \/ Excluded(t, Parent(t, n))

\* What the enumeration returned is hidden, system, "." or "..".
Filtered(v) == v.hidden \/ v.system \/ v.name \in {".", ".."}

C15_NothingForFiltered ==
    /\ \A i \in 1..vec.count : ~Excluded(tree, EntryNode(i))
    /\ \A m \in Items : m.node # NULL /\ ~Excluded(tree, m.node)
    /\ \A k \in 1..Len(pushLog) : ~Excluded(tree, bufs[pushLog[k].path].node)
    /\ \A b \in 1..Len(bufs) :
         bufs[b].kind = "child" => ~Excluded(tree, bufs[b].node)
    /\ \A f \in Frames : ~Excluded(tree, f.dir)
    /\ \A i \in Visits :
         /\ ~Excluded(tree, walkLog[i].dir)
         /\ Filtered(walkLog[i]) => walkLog[i].fate = "skipped"

C15_FilteredStep ==
    (InLoop /\ Filtered(Current)) =>
        /\ nextCmdId' = nextCmdId
        /\ vec' = vec
        /\ menu' = menu
        /\ nextMenu' = nextMenu
        /\ Len(stack') = Len(stack)
        /\ stack'[Len(stack)].idx = Top.idx + 1

\* C15: no store entry, no menu item, no path buffer and no push exists
\* for a child that is hidden, system, "." or ".."; the step that meets
\* such a child leaves the command id counter, the store and the menu
\* unchanged and only moves on to the next entry; and no call ever lists a
\* directory that is hidden or system or lies below one.
C15_Filtering == [](C15_NothingForFiltered) /\ [][C15_FilteredStep]_vars

\* A walk that met a hidden file and a system directory with content is
\* over, and the store holds the entries that were not filtered.
C15_Witness ==
    /\ AfterBuild
    /\ vec.count > 0
    /\ \E i \in Visits : walkLog[i].hidden /\ ~walkLog[i].isDir
    /\ \E i \in Visits :
         /\ walkLog[i].system /\ walkLog[i].isDir
         /\ tree.nodes[walkLog[i].node].kids # <<>>
    /\ \E i \in Visits : walkLog[i].name = ".."

\* C18: every icon handle SHGetFileInfoW handed to IconForPath has been
\* passed to DestroyIcon exactly once when IconForPath has returned, never
\* a second time after DibFromIcon destroyed it.
C18_IconDestroyedOnce == \A h \in 1..Len(icons) : icons[h] = 1

\* The store entries whose path is buffer b.
Owners(b) == {i \in 1..vec.count : vec.items[i].path = b}

\* The directory whose EnumerateFolder call obtained buffer b.
ObtainedBy(b) ==
    IF bufs[b].kind = "pattern" THEN bufs[b].node ELSE Parent(tree, bufs[b].node)

\* C19: no buffer of CombinePath is freed twice or owned by two entries or
\* freed while an entry owns it; once the EnumerateFolder call that
\* obtained a buffer (search pattern or child path) has returned, the
\* buffer is owned by a store entry or was freed exactly once; and a find
\* handle is closed exactly once, by the time its call has returned.
C19_BuffersOwnedOrFreed ==
    /\ \A b \in 1..Len(bufs) :
         /\ bufs[b].frees <= 1
         /\ Cardinality(Owners(b)) <= 1
         /\ Owners(b) # {} => bufs[b].frees = 0
         /\ (Owners(b) = {} /\ ~ \E f \in Frames : f.dir = ObtainedBy(b)) =>
                bufs[b].frees = 1
    /\ \A h \in 1..Len(finds) :
         /\ finds[h] <= 1
         /\ (~ \E f \in Frames : f.hFind = h) => finds[h] = 1

(***************************************************************************)
(* The menu builder compiled with MAX_DEPTH = 2                            *)
(***************************************************************************)
\* The value of MAX_DEPTH in the build of the depth scenario.
ScenarioDepth == 2

InitDepth2 ==
    /\ VecIdle
    /\ nullIconAt = 0
    /\ pc = "build"
    /\ tree \in Trees
    /\ maxDepth = ScenarioDepth
    /\ stack = <<>>
    /\ nextCmdId = 0
    /\ menu = <<>>
    /\ nextMenu = 0
    /\ popup = NULL
    /\ bufs = <<>>
    /\ bmps = <<>>
    /\ walkLog = <<>>
    /\ buildHr = "none"
    /\ lastHr = "none"
    /\ choice = 0
    /\ icons = <<>>
    /\ finds = <<>>
    /\ DropIdle
    /\ proc = ProcIdle

SpecDepth2 == InitDepth2 /\ [][Next]_vars

\* The nodes of TreeScenario: Notes/, Archive.zip, Backups/, Backups/Daily/
\* and the file in Daily.
Notes == TreeScenario.nodes[Root].kids[1]
Archive == TreeScenario.nodes[Root].kids[2]
Backups == TreeScenario.nodes[Root].kids[3]
Daily == TreeScenario.nodes[Backups].kids[1]
DailyContent == {n \in NodeIds(TreeScenario) : n # Root /\ Parent(TreeScenario, n) = Daily}

\* The nodes that have a store entry.
StoredNodes == {EntryNode(i) : i \in 1..vec.count}

\* C16: in the build with MAX_DEPTH = 2 of the root with Notes/,
\* Archive.zip and Backups/Daily/, the listing of Daily is never started
\* and nothing in Daily ever gets a store entry or a menu item; and when
\* the build is over and no allocation failed, the top-level entries of the
\* store are exactly Notes, Archive.zip and Backups, each stored once (the
\* only other entry being Daily itself, discovered at depth 1).
C16_DepthScenario ==
    (tree = TreeScenario /\ maxDepth = ScenarioDepth) =>
        /\ ~Started(Daily)
        /\ StoredNodes \cap DailyContent = {}
        /\ \A m \in Items : m.node \notin DailyContent
        /\ \A f \in Frames : f.dir = Daily => f.depth = ScenarioDepth /\ f.phase = "call"
        /\ (AfterBuild /\ faults = 0) =>
              /\ {n \in StoredNodes : Level(tree, n) = 1} = {Notes, Archive, Backups}
              /\ Cardinality({i \in 1..vec.count : Level(tree, EntryNode(i)) = 1}) = 3
              /\ StoredNodes = {Notes, Archive, Backups, Daily}
              /\ vec.count = 4

\* The build of the scenario is over without any allocation failure.
C16_Witness ==
    /\ tree = TreeScenario
    /\ maxDepth = ScenarioDepth
    /\ pc = "menu"
    /\ faults = 0
    /\ vec.count = 4
    /\ Daily \in StoredNodes

(***************************************************************************)
(* Properties of the Entry Store (checked under SpecVec)                   *)
(***************************************************************************)
LastPush == pushLog[Len(pushLog)]

\* The successful pushes, in call order.
Pushed == SelectSeq(pushLog, LAMBDA p : p.ok)

Stored(v) == {v.items[i] : i \in 1..Len(v.items)}

\* C8: a failed VectorPush leaves items, count and capacity exactly as they
\* were before the call and no entry of the store refers to the path or the
\* icon that was passed; a successful one grows count by exactly one and the
\* new last entry holds exactly the path and the icon that were passed.
C8_FailedPushLeavesStoreUnchanged ==
    pushLog # <<>> =>
        /\ ~LastPush.ok =>
             /\ vec = vecBefore
             /\ \A e \in Stored(vec) :
                  /\ e.path # LastPush.path
                  /\ LastPush.icon # NULL => e.icon # LastPush.icon
        /\ LastPush.ok =>
             /\ vec.count = vecBefore.count + 1
             /\ vec.items[vec.count] = MenuEntry(LastPush.path, LastPush.icon)

\* A push fails on a store that already holds a full first buffer.
C8_Witness ==
    /\ pushLog # <<>>
    /\ ~LastPush.ok
    /\ vec.count = BaseCapacity

\* C10: after any sequence of pushes into an empty store, the store holds
\* exactly the successfully pushed (path, icon) pairs, the (i+1)-th of them
\* at index i, whatever reallocations happened in between.
C10_PushKeepsOrder ==
    /\ vec.count = Len(Pushed)
    /\ vec.count <= Len(vec.items)
    /\ \A i \in 1..Len(Pushed) :
         vec.items[i] = MenuEntry(Pushed[i].path, Pushed[i].icon)

\* The store has grown twice and holds entries beyond the first buffer.
C10_Witness ==
    /\ vec.capacity = 2 * BaseCapacity
    /\ vec.count > BaseCapacity
    /\ Len(Pushed) < Len(pushLog)

(***************************************************************************)
(* Properties of VectorEnsureCapacity (checked under SpecReserve)          *)
(***************************************************************************)
Max(a, b) == IF a >= b THEN a ELSE b

\* The capacity the claim C17 states for a growth from capacity old.
ClaimedCapacity(old, need) ==
    IF old = 0 THEN Max(need, BaseCapacity) ELSE Max(need, 2 * old)

\* C17: count <= capacity in every state, the buffer has capacity slots and
\* those from count on are zero; a successful VectorEnsureCapacity(need)
\* yields capacity >= need and leaves count and every existing slot
\* unchanged; it leaves the store unchanged when need <= capacity, and else
\* sets the capacity to max(need, 2 * old capacity), or max(need, 64) from
\* capacity 0, with every added slot zeroed; a failed one leaves the store
\* unchanged.
C17_CapacityInvariant ==
    /\ vec.count <= vec.capacity
    /\ Len(vec.items) = vec.capacity
    /\ \A i \in (vec.count + 1)..vec.capacity : vec.items[i] = ZeroEntry
    /\ (pushLog # <<>> /\ LastPush.site = "reserve") =>
         IF ~LastPush.ok
         THEN vec = vecBefore
         ELSE /\ vec.capacity >= LastPush.need
              /\ vec.count = vecBefore.count
              /\ \A i \in 1..vecBefore.capacity : vec.items[i] = vecBefore.items[i]
              /\ IF LastPush.need <= vecBefore.capacity
                 THEN vec = vecBefore
                 ELSE /\ vec.capacity = ClaimedCapacity(vecBefore.capacity, LastPush.need)
                      /\ \A i \in (vecBefore.capacity + 1)..vec.capacity :
                           vec.items[i] = ZeroEntry

\* A store that holds entries in its first buffer was grown to a need
\* beyond twice its capacity.
C17_Witness ==
    /\ pushLog # <<>>
    /\ LastPush.site = "reserve" /\ LastPush.ok
    /\ vecBefore.capacity = BaseCapacity
    /\ vecBefore.count > 0
    /\ LastPush.need > 2 * BaseCapacity
    /\ vec.capacity = LastPush.need

(***************************************************************************)
(* ExecuteDragDrop on its own, for 1..MaxPaths source paths                *)
(***************************************************************************)
InitDrop ==
    /\ VecIdle
    /\ nullIconAt = 0
    /\ WalkIdle
    /\ dd \in {DdCall(n) : n \in 1..MaxPaths}
    /\ gs = GsIdle
    /\ refs = <<>>
    /\ calls = <<>>
    /\ proc = ProcIdle

NextDrop ==
    \/ ExecuteDragDropBegin
    \/ PathsEnter
    \/ PathsAllocFails
    \/ ParsePath
    \/ ParsePathFails
    \/ PidlsEnter
    \/ PidlsAllocFails
    \/ BindToParent
    \/ BindToParentFails
    \/ GetUIObjectOf
    \/ AfterSource
    \/ AfterDestination
    \/ DragEnter
    \/ DropOrLeave
    \/ ExecuteDragDropRelease

SpecDrop == InitDrop /\ [][NextDrop]_vars

(***************************************************************************)
(* The whole program, from wWinMain to its return                          *)
(***************************************************************************)
\* The command lines of the model (without the program name): no argument,
\* source paths, the directory switch with and without its argument, the
\* help switch.
CommandLines ==
    { <<>>, <<"a.txt">>, <<"a.txt", "b.txt">>,
      <<"/D", "dir">>, <<"/d", "dir", "a.txt">>,
      <<"/?">>, <<"a.txt", "-?">>, <<"a.txt", "/D">> }

\* What the path of the destination root can name.
Destinations == {"directory", "file", "missing"}

InitRun ==
    /\ VecIdle
    /\ nullIconAt = 0
    /\ pc = "start"
    /\ tree \in Trees
    /\ maxDepth = MAX_DEPTH
    /\ stack = <<>>
    /\ nextCmdId = 0
    /\ menu = <<>>
    /\ nextMenu = 0
    /\ popup = NULL
    /\ bufs = <<>>
    /\ bmps = <<>>
    /\ walkLog = <<>>
    /\ buildHr = "none"
    /\ lastHr = "none"
    /\ choice = 0
    /\ icons = <<>>
    /\ finds = <<>>
    /\ DropIdle
    /\ proc \in {ProcStart(args, dest) : args \in CommandLines, dest \in Destinations}

NextRun ==
    \/ InitializeApplication
    \/ CommandLineToArgv
    \/ RunSendToParse
    \/ RunSendToValidate
    \/ Next
    \/ RunSendToBuildFailed
    \/ RunSendToDispatch
    \/ NextDrop
    \/ RunSendToRelease

SpecRun == InitRun /\ [][NextRun]_vars

(***************************************************************************)
(* Properties of the drag and drop (checked under SpecDrop)                *)
(***************************************************************************)
ProtocolOps == {"DragEnter", "Drop", "DragLeave"}

\* The calls made on the drop target, in order.
Protocol == SelectSeq(calls, LAMBDA c : c.op \in ProtocolOps)

RefIds == 1..Len(refs)

\* The capability handles obtained so far.
Capabilities == {h \in RefIds : refs[h].kind \in {"dataobj", "droptarget"}}

\* C5: DragEnter is called only on a drop target and with a data object
\* that were both obtained, at most once and before any Drop or DragLeave;
\* it is followed by exactly one of them: Drop iff DragEnter succeeded with
\* a non-empty effect, DragLeave otherwise; neither is called without it.
C5_DragProtocol ==
    /\ Len(Protocol) <= 2
    /\ Protocol # <<>> =>
         /\ Protocol[1].op = "DragEnter"
         /\ Protocol[1].h \in RefIds /\ refs[Protocol[1].h].kind = "droptarget"
         /\ Protocol[1].info.data \in RefIds
         /\ refs[Protocol[1].info.data].kind = "dataobj"
         /\ refs[Protocol[1].h].releases = 0 \/ Len(Protocol) = 2
    /\ Len(Protocol) = 2 =>
         /\ Protocol[2].h = Protocol[1].h
         /\ Protocol[2].op =
              IF Protocol[1].info.ok /\ Protocol[1].info.effect # 0
              THEN "Drop" ELSE "DragLeave"
    /\ dd.pc = "done" => Len(Protocol) \in {0, 2}

\* A transfer ended with DragLeave because DragEnter, though successful,
\* returned no effect.
C5_Witness ==
    /\ dd.pc = "done"
    /\ Len(Protocol) = 2
    /\ Protocol[1].info.ok /\ Protocol[1].info.effect = 0
    /\ Protocol[2].op = "DragLeave"

\* C6: no capability handle is released twice; when ExecuteDragDrop has
\* returned every capability handle obtained was released exactly once;
\* no call on the drop target follows such a release; and when the drop
\* target could not be bound, no DragEnter/Drop/DragLeave was made.
C6_CapabilitiesReleased ==
    /\ \A h \in Capabilities : refs[h].releases <= 1
    /\ dd.pc = "done" => \A h \in Capabilities : refs[h].releases = 1
    /\ \A i, j \in 1..Len(calls) :
         (calls[i].op = "Release" /\ calls[i].h \in Capabilities
            /\ calls[j].op \in ProtocolOps) => j < i
    /\ (dd.pc = "done" /\ (dd.dstHr # "S_OK" \/ dd.dstOut = NULL)) =>
         Protocol = <<>>

\* ExecuteDragDrop returned after the data object was obtained and the
\* binding of the destination failed.
C6_Witness ==
    /\ dd.pc = "done"
    /\ dd.dstHr = "E_FAIL"
    /\ \E h \in Capabilities : refs[h].kind = "dataobj" /\ refs[h].releases = 1

\* The PIDLs and parent folders the active binding call obtained.
Bound == {h \in RefIds : refs[h].call = gs.which /\ refs[h].kind \in {"pidl", "folder"}}

GetUIObjectOfCalls == SelectSeq(calls, LAMBDA c : c.op = "GetUIObjectOf")

\* C7: when parsing a path or resolving a parent fails, the binding call
\* returns an error and a NULL capability, and every PIDL and every parent
\* folder it obtained has been released exactly once; no PIDL or parent is
\* ever released twice; and whenever the capability is requested, it is
\* requested from the parent of the last PIDL over all N PIDLs of the call.
C7_AtomicBinding ==
    /\ \A h \in RefIds : refs[h].kind \in {"pidl", "folder"} => refs[h].releases <= 1
    /\ (gs.pc = "ret" /\ gs.failure \in {"parse", "bind"}) =>
         /\ gs.hr # "S_OK"
         /\ gs.out = NULL
         /\ \A h \in Bound : refs[h].releases = 1
         /\ ~ \E h \in Capabilities : refs[h].call = gs.which
    /\ (gs.pc = "ret" /\ gs.failure = "none") =>
         LET c == GetUIObjectOfCalls[Len(GetUIObjectOfCalls)] IN
         /\ c.h \in RefIds
         /\ refs[c.h] = [Ref("folder", gs.which, gs.count) EXCEPT !.releases = 1]
         /\ c.info.n = gs.count
         /\ Len(c.info.ids) = gs.count
         /\ \A i \in 1..gs.count :
              refs[c.info.ids[i]] = [Ref("pidl", gs.which, i) EXCEPT !.releases = 1]
         /\ \A h \in Bound : refs[h].releases = 1

\* The binding of the source paths failed at the parent of the last of
\* several PIDLs, after earlier parents had been obtained.
C7_Witness ==
    /\ gs.pc = "ret"
    /\ gs.failure = "bind"
    /\ gs.count >= 2
    /\ gs.idx = gs.count
    /\ \E h \in Bound : refs[h].kind = "folder"

(***************************************************************************)
(* Properties of the whole program (checked under SpecRun)                 *)
(***************************************************************************)
\* The source paths on the command line: the arguments that are neither a
\* switch nor the directory that follows a directory switch.
SourcePaths ==
    {i \in 1..Len(proc.rawArgv) :
        /\ proc.rawArgv[i] \notin HelpSwitches \cup DirSwitches
        /\ i > 1 => proc.rawArgv[i - 1] \notin DirSwitches}

\* RunSendTo is past the `if (choice)` statement.
Dispatched == proc.shown /\ pc \in {"dismissed", "drop", "release", "exited"}

TransferOf(entry, n) ==
    [entry |-> entry, path |-> vec.items[entry].path, n |-> n]

OpenOf(entry) == [entry |-> entry, path |-> vec.items[entry].path]

DropTargets == {h \in RefIds : refs[h].kind = "droptarget"}

\* C11: with command id 0 neither ExecuteDragDrop nor ShellExecuteW is
\* called; with a positive id and at least one source path ExecuteDragDrop is
\* called exactly once, on the store entry items[id - 1] and all source
\* paths, and nothing is opened; with a positive id and no source path
\* items[id - 1] is opened exactly once and no drop target is ever bound.
C11_Dispatch ==
    /\ ~Dispatched => proc.transfers = <<>> /\ proc.opened = <<>> /\ refs = <<>>
    /\ (Dispatched /\ choice = 0) =>
         /\ proc.transfers = <<>> /\ proc.opened = <<>>
         /\ dd.pc = "idle" /\ refs = <<>> /\ calls = <<>>
    /\ (Dispatched /\ choice > 0 /\ SourcePaths # {}) =>
         /\ proc.transfers = << TransferOf(choice, Cardinality(SourcePaths)) >>
         /\ dd.pc # "idle" /\ dd.n = Cardinality(SourcePaths)
         /\ proc.opened = <<>>
    /\ (Dispatched /\ choice > 0 /\ SourcePaths = {}) =>
         /\ proc.opened = << OpenOf(choice) >>
         /\ proc.transfers = <<>>
         /\ dd.pc = "idle" /\ DropTargets = {} /\ calls = <<>>

\* The program ended after a transfer of two source paths that the drop
\* target accepted.
C11_Witness ==
    /\ pc = "exited"
    /\ choice > 0
    /\ Cardinality(SourcePaths) = 2
    /\ \E i \in 1..Len(calls) : calls[i].op = "Drop"

\* RunSendTo is past ValidateSendToDirectory.
Validated == proc.cleanArgc >= 1 /\ pc \notin {"start", "argv", "parse", "validate"}

\* The outermost enumeration returned an error or left the store empty.
NothingBuilt ==
    /\ pc \notin {"start", "argv", "parse", "validate", "build", "walk", "built"}
    /\ buildHr # "none"
    /\ buildHr # "S_OK" \/ vec.count = 0

\* C12: once the menu was presented the program exits with status 0,
\* dismissed or selected, whatever the transfer does, and no error box is
\* shown; when the destination root is not an existing directory, when the
\* outermost enumeration returns an error, or when it leaves the store
\* empty, exactly one error box is shown, the program exits with a non-zero
\* status and the menu is never presented.
C12_ExitBehaviour ==
    /\ proc.shown =>
         /\ proc.boxes = 0
         /\ proc.exit \in {NoExit, EXIT_SUCCESS}
         /\ pc \in {"chosen", "selected", "dismissed", "drop", "release", "exited"}
    /\ (Validated /\ proc.dest # "directory") =>
         /\ pc = "exited" /\ proc.exit \notin {EXIT_SUCCESS, NoExit}
         /\ proc.boxes = 1 /\ ~proc.shown /\ buildHr = "none"
    /\ NothingBuilt =>
         /\ pc \in {"failed", "exited"}
         /\ proc.boxes = 1 /\ ~proc.shown
         /\ pc = "exited" => proc.exit \notin {EXIT_SUCCESS, NoExit}
    /\ pc = "exited" <=> proc.exit # NoExit

\* The program ended with a failure status and one error box because the
\* listing of the destination root started and no entry was stored.
C12_Witness ==
    /\ pc = "exited"
    /\ proc.exit = EXIT_FAILURE
    /\ buildHr = "S_OK" /\ vec.count = 0 /\ walkLog # <<>>
    /\ proc.boxes = 1 /\ ~proc.shown

\* C13: when the program has exited after the Entry Store was populated,
\* the path of every stored entry was freed exactly once and its icon was
\* deleted exactly once.
C13_StoreTornDown ==
    (pc = "exited" /\ vec.count > 0) =>
        \A i \in 1..vec.count :
            /\ bufs[vec.items[i].path].frees = 1
            /\ vec.items[i].icon # NULL => bmps[vec.items[i].icon] = 1

\* C20: the namespace root handle is never released twice and OLE is never
\* uninitialized more often than it was initialized; PathToPIDL runs only
\* while the root handle is held; and when the program has exited after
\* OLE was initialized and the root handle acquired, the handle was
\* released exactly once and OLE uninitialized exactly once.
C20_GlobalHandlesReleased ==
    /\ proc.desktopReleases <= proc.desktopRefs
    /\ proc.oleUninit <= proc.ole
    /\ gs.pc = "parse" => proc.desktop # NULL /\ proc.desktopReleases = 0
    /\ (pc = "exited" /\ proc.ole = 1 /\ proc.desktopRefs = 1) =>
         /\ proc.desktopReleases = 1
         /\ proc.oleUninit = 1

====
